---- MODULE Spec2Model ----
(***************************************************************************)
(* QEMU RISC-V CX (Composable Extensions) CSR hooks, target/riscv/cx.c.    *)
(*                                                                         *)
(* cx.c defines eight hooks, one per (register, access kind).  Each takes  *)
(* the hart's CPURISCVState, the CSR number and the value BY VALUE, emits  *)
(* one trace event and returns void.  The hooks hold no state of their     *)
(* own: the coordinate registers live in the hart's CPURISCVState          *)
(* (cpu.h) and are stored and fetched by the CSR dispatcher that calls     *)
(* the hooks; neither is part of cx.c, so both are modelled from the       *)
(* specification (CxWindowState, section 4.2; dispatcher, section 6).      *)
(* The extension registry and the extension module are likewise modelled   *)
(* from the specification (sections 4.1, 3); cx.c never calls them.        *)
(***************************************************************************)
EXTENDS Integers, Sequences, FiniteSets, TLC

\* ------------------------------------------------------------------ bounds
NumHarts == 2
MaxVal == 2
MaxOps == 3

Harts == 0 .. (NumHarts - 1)
Values == 0 .. MaxVal

\* ------------------------------------------------------- symbolic constants
\* An error of the engine: its kind and the module status code it carries.
Error(kind, code) == [kind |-> kind, code |-> code]

NoError == Error("NoError", "None")

\* The value of the caller's last operation before any was performed.
NoOp == [hart |-> 0, reg |-> "None", kind |-> "None", val |-> 0]

CSR_CXSEL == "CSR_CXSEL"
CSR_CXSETSEL == "CSR_CXSETSEL"
CSR_CXIDX == "CSR_CXIDX"
CSR_CXDATA == "CSR_CXDATA"

VARIABLES
    env,        \* env[h]: the CPURISCVState of hart h
    nops,       \* number of register operations performed
    nevents,    \* number of trace events emitted
    emitted,    \* the trace events emitted by the most recent operation
    last,       \* the most recent operation: hart, register, kind, value
    result,     \* what the most recent operation gave its caller
    lookups,    \* registry-lookup counter
    invoked,    \* handler calls made by the most recent operation
    module_store, \* the registered module's words, by <<set_selector, index>>
    wsel        \* wsel[h]: value of hart h's most recent write_selector

vars == <<env, nops, nevents, emitted, last, result, lookups, invoked,
          module_store, wsel>>

\* ------------------------------------------- extension registry and module
\* One module is installed, at selector 1; 0 is reserved; the rest are unbound.
Registered == {1}

lookup(selector) == selector \in Registered

\* The module has one set (0); word 0 is storage, index 1 does not exist,
\* any further index answers with the module's own status code.
handler_status(s, i) ==
    IF s # 0 THEN "BadSetSelector"
    ELSE IF i = 0 THEN "Ok"
    ELSE IF i = 1 THEN "BadIndex"
    ELSE "ModuleStatus"

\* Translation of a handler status into the engine's result (4.3 step 5).
Translate(status) ==
    IF status = "Ok" THEN NoError
    ELSE IF status \in {"BadSetSelector", "BadIndex"}
         THEN Error("InvalidWindow", "None")
    ELSE Error("ExtensionFault", status)

\* The module's state after the handler calls cs (write calls store).
RECURSIVE ApplyCalls(_, _)
ApplyCalls(store, cs) ==
    IF cs = <<>> THEN store
    ELSE LET c == Head(cs)
             next == IF c.op = "write" /\ handler_status(c.s, c.i) = "Ok"
                     THEN [store EXCEPT ![<<c.s, c.i>>] = c.v]
                     ELSE store
         IN ApplyCalls(next, Tail(cs))

\* --------------------------------------------------------------- trace.h
\* A trace point of trace.h: trace_<name>(mhartid, reg_index, val).
TraceEvent(name, mhartid, reg_index, val) ==
    [name |-> name, mhartid |-> mhartid, reg_index |-> reg_index, val |-> val]

\* What a hook of cx.c does: the hart states it leaves, the trace events it
\* emits, the registry lookups and handler calls it makes, what it raises.
\* Every hook is a void function with one path, a single trace call.
Traced(e, ev) ==
    [env |-> e, trace |-> <<ev>>, lookups |-> 0, calls |-> <<>>,
     raised |-> NoError]

\* ------------------------------------------------------------------ cx.c
cxsel_csr_read(e, h, reg_index, val) ==
    Traced(e, TraceEvent("cxsel_csr_read", e[h].mhartid, reg_index, val))

\* Variant: eager validation, the written selector is looked up and rejected.
cxsel_csr_write_eager(e, h, reg_index, val) ==
    [env |-> e,
     trace |-> <<TraceEvent("cxsel_csr_write", e[h].mhartid, reg_index, val)>>,
     lookups |-> 1, calls |-> <<>>,
     raised |-> IF lookup(val) THEN NoError
                ELSE Error("UnknownExtension", "None")]

cxsel_csr_write(e, h, reg_index, val) ==
    Traced(e, TraceEvent("cxsel_csr_write", e[h].mhartid, reg_index, val))

cxsetsel_csr_read(e, h, reg_index, val) ==
    Traced(e, TraceEvent("cxsetsel_csr_read", e[h].mhartid, reg_index, val))

\* Variant: the hook assigns the value to the hart's selector field.
cxsetsel_csr_write_cxsel(e, h, reg_index, val) ==
    Traced([e EXCEPT ![h].selector = val],
           TraceEvent("cxsetsel_csr_write", e[h].mhartid, reg_index, val))

cxsetsel_csr_write(e, h, reg_index, val) ==
    Traced(e, TraceEvent("cxsetsel_csr_write", e[h].mhartid, reg_index, val))

\* Variant: the hook calls the write trace point.
cxidx_csr_read_as_write(e, h, reg_index, val) ==
    Traced(e, TraceEvent("cxidx_csr_write", e[h].mhartid, reg_index, val))

cxidx_csr_read(e, h, reg_index, val) ==
    Traced(e, TraceEvent("cxidx_csr_read", e[h].mhartid, reg_index, val))

\* Variant: the index is kept in one static variable shared by all harts.
cxidx_csr_write_static(e, h, reg_index, val) ==
    Traced([g \in DOMAIN e |-> [e[g] EXCEPT !.index = val]],
           TraceEvent("cxidx_csr_write", e[h].mhartid, reg_index, val))

cxidx_csr_write(e, h, reg_index, val) ==
    Traced(e, TraceEvent("cxidx_csr_write", e[h].mhartid, reg_index, val))

\* Variant: the index advances after each data read.
cxdata_csr_read_autoinc(e, h, reg_index, val) ==
    Traced([e EXCEPT ![h].index = (e[h].index + 1) % (MaxVal + 1)],
           TraceEvent("cxdata_csr_read", e[h].mhartid, reg_index, val))

cxdata_csr_read(e, h, reg_index, val) ==
    Traced(e, TraceEvent("cxdata_csr_read", e[h].mhartid, reg_index, val))

\* Variant: the hook returns without calling its trace point.
cxdata_csr_write_untraced(e, h, reg_index, val) ==
    [env |-> e, trace |-> <<>>, lookups |-> 0, calls |-> <<>>,
     raised |-> NoError]

cxdata_csr_write(e, h, reg_index, val) ==
    Traced(e, TraceEvent("cxdata_csr_write", e[h].mhartid, reg_index, val))

\* ------------------------------------------- hart state and CSR dispatcher
\* CxWindowState inside CPURISCVState: all coordinates zero at hart creation.
InitEnv ==
    [h \in Harts |->
        [mhartid |-> h, selector |-> 0, set_selector |-> 0, index |-> 0]]

\* The dispatcher's store of a written coordinate into the hart's state.
csr_store(e, h, reg, v) ==
    IF reg = "Selector" THEN [e EXCEPT ![h].selector = v]
    ELSE IF reg = "SetSelector" THEN [e EXCEPT ![h].set_selector = v]
    ELSE [e EXCEPT ![h].index = v]

\* The dispatcher's fetch of a coordinate from the hart's state.
csr_fetch(e, h, reg) ==
    IF reg = "Selector" THEN e[h].selector
    ELSE IF reg = "SetSelector" THEN e[h].set_selector
    ELSE e[h].index

\* One architectural access completes: the hook's effects become visible and
\* the caller receives its outcome.  A read hands back the value the hook
\* was given; nothing is handed back by a write or when the hook raised.
Complete(h, reg, kind, val, r) ==
    /\ env' = r.env
    /\ nops' = nops + 1
    /\ nevents' = nevents + Len(r.trace)
    /\ emitted' = r.trace
    /\ last' = [hart |-> h, reg |-> reg, kind |-> kind, val |-> val]
    /\ result' = [err |-> r.raised,
                  has_val |-> (kind = "Read" /\ r.raised = NoError),
                  val |-> IF kind = "Read" /\ r.raised = NoError
                          THEN val ELSE 0]
    /\ lookups' = lookups + r.lookups
    /\ invoked' = r.calls
    /\ module_store' = ApplyCalls(module_store, r.calls)

Init ==
    /\ env = InitEnv
    /\ nops = 0
    /\ nevents = 0
    /\ emitted = <<>>
    /\ last = NoOp
    /\ result = [err |-> NoError, has_val |-> FALSE, val |-> 0]
    /\ lookups = 0
    /\ invoked = <<>>
    /\ module_store = [c \in Values \X Values |-> 0]
    /\ wsel = [h \in Harts |-> 0]

ReadSelector(h) ==
    /\ nops < MaxOps
    /\ LET val == csr_fetch(env, h, "Selector")
       IN Complete(h, "Selector", "Read", val,
                   cxsel_csr_read(env, h, CSR_CXSEL, val))
    /\ UNCHANGED wsel

WriteSelector(h, v) ==
    /\ nops < MaxOps
    /\ Complete(h, "Selector", "Write", v,
                cxsel_csr_write(csr_store(env, h, "Selector", v), h, CSR_CXSEL, v))
    /\ wsel' = [wsel EXCEPT ![h] = v]

ReadSetSelector(h) ==
    /\ nops < MaxOps
    /\ LET val == csr_fetch(env, h, "SetSelector")
       IN Complete(h, "SetSelector", "Read", val,
                   cxsetsel_csr_read(env, h, CSR_CXSETSEL, val))
    /\ UNCHANGED wsel

WriteSetSelector(h, v) ==
    /\ nops < MaxOps
    /\ Complete(h, "SetSelector", "Write", v,
                cxsetsel_csr_write(csr_store(env, h, "SetSelector", v), h,
                                   CSR_CXSETSEL, v))
    /\ UNCHANGED wsel

ReadIndex(h) ==
    /\ nops < MaxOps
    /\ LET val == csr_fetch(env, h, "Index")
       IN Complete(h, "Index", "Read", val,
                   cxidx_csr_read(env, h, CSR_CXIDX, val))
    /\ UNCHANGED wsel

WriteIndex(h, v) ==
    /\ nops < MaxOps
    /\ Complete(h, "Index", "Write", v,
                cxidx_csr_write(csr_store(env, h, "Index", v), h, CSR_CXIDX, v))
    /\ UNCHANGED wsel

\* The Data register has no field in the hart's state: the value a data
\* read hands to the hook is whatever its caller holds.
ReadData(h, val) ==
    /\ nops < MaxOps
    /\ Complete(h, "Data", "Read", val,
                cxdata_csr_read(env, h, CSR_CXDATA, val))
    /\ UNCHANGED wsel

WriteData(h, v) ==
    /\ nops < MaxOps
    /\ Complete(h, "Data", "Write", v,
                cxdata_csr_write(env, h, CSR_CXDATA, v))
    /\ UNCHANGED wsel

Next ==
    \/ \E h \in Harts : ReadSelector(h)
    \/ \E h \in Harts, v \in Values : WriteSelector(h, v)
    \/ \E h \in Harts : ReadSetSelector(h)
    \/ \E h \in Harts, v \in Values : WriteSetSelector(h, v)
    \/ \E h \in Harts : ReadIndex(h)
    \/ \E h \in Harts, v \in Values : WriteIndex(h, v)
    \/ \E h \in Harts, val \in Values : ReadData(h, val)
    \/ \E h \in Harts, v \in Values : WriteData(h, v)

Spec == Init /\ [][Next]_vars

\* ================================================================ claims
Coordinates(s) == <<s.selector, s.set_selector, s.index>>

IsDataAccess == last # NoOp /\ last.reg = "Data"

IsCoordinateAccess == last # NoOp /\ last.reg # "Data"

\* The register and access kind a trace point stands for.
RegisterOf(name) ==
    IF name \in {"cxsel_csr_read", "cxsel_csr_write"} THEN "Selector"
    ELSE IF name \in {"cxsetsel_csr_read", "cxsetsel_csr_write"} THEN "SetSelector"
    ELSE IF name \in {"cxidx_csr_read", "cxidx_csr_write"} THEN "Index"
    ELSE "Data"

KindOf(name) ==
    IF name \in {"cxsel_csr_read", "cxsetsel_csr_read", "cxidx_csr_read",
                 "cxdata_csr_read"}
    THEN "Read" ELSE "Write"

CsrOf(reg) ==
    IF reg = "Selector" THEN CSR_CXSEL
    ELSE IF reg = "SetSelector" THEN CSR_CXSETSEL
    ELSE IF reg = "Index" THEN CSR_CXIDX
    ELSE CSR_CXDATA

\* What a trace event says of the access's outcome and value.  A trace point
\* of cx.c passes (mhartid, reg_index, val): always a value, never an outcome.
ReportedOutcome(ev) ==
    IF "outcome" \in DOMAIN ev THEN ev.outcome ELSE NoError

ReportsValue(ev) == "val" \in DOMAIN ev

\* C1 (zero-selector gate): a Data access made while the hart's Selector is 0
\* fails with NoExtensionSelected, invokes no handler and leaves the
\* registry-lookup counter at zero.
C1_ZeroSelectorGate ==
    (IsDataAccess /\ env[last.hart].selector = 0)
        => /\ result.err = Error("NoExtensionSelected", "None")
           /\ invoked = <<>>
           /\ lookups = 0

\* C2 (unknown-selector gate): a Data access made while the hart's Selector is
\* non-zero and has no handler in the registry fails with UnknownExtension
\* and invokes no handler.
C2_UnknownSelectorGate ==
    (IsDataAccess /\ env[last.hart].selector # 0
                  /\ ~lookup(env[last.hart].selector))
        => /\ result.err = Error("UnknownExtension", "None")
           /\ invoked = <<>>

\* C3 (single report): after any sequence of register operations the number
\* of trace events emitted equals the number of operations performed, and the
\* most recent operation emitted exactly one.
C3_SingleReport ==
    /\ nevents = nops
    /\ last # NoOp => Len(emitted) = 1

C3_Witness ==
    /\ nops >= 3
    /\ nevents = nops
    /\ IsDataAccess
    /\ last.kind = "Write"

\* C4 (coordinate independence from Data outcome): a step that performs a
\* read or write of Data leaves Selector, Set-Selector and Index of the
\* accessing hart as they were before the access.
C4_DataKeepsCoordinates ==
    [][(last' # NoOp /\ last'.reg = "Data")
          => Coordinates(env'[last'.hart]) = Coordinates(env[last'.hart])]_vars

C4_Witness ==
    /\ IsDataAccess
    /\ last.kind = "Read"
    /\ env[last.hart].selector # 0
    /\ env[last.hart].index # 0

\* C5 (selector persistence): a read of Selector succeeds and gives, to the
\* caller and to the trace, the value of the hart's most recent
\* write_selector (0 if there was none), whatever writes of Set-Selector or
\* Index and whatever Data accesses happened in between; the stored Selector
\* equals that value at all times.
C5_SelectorPersistence ==
    /\ \A h \in Harts : env[h].selector = wsel[h]
    /\ (last # NoOp /\ last.reg = "Selector" /\ last.kind = "Read")
          => /\ result.err = NoError
             /\ result.has_val
             /\ result.val = wsel[last.hart]
             /\ Len(emitted) = 1
             /\ emitted[1].val = wsel[last.hart]

C5_Witness ==
    /\ last # NoOp /\ last.reg = "Selector" /\ last.kind = "Read"
    /\ nops >= 3
    /\ wsel[last.hart] = 2
    /\ result.val = 2
    /\ env[last.hart].set_selector # 0

\* C6 (data round-trip): with a registered selector and coordinates (s, i)
\* the module accepts, write_data(v) calls the handler's write with exactly
\* (s, i, v), so the module holds v at (s, i); read_data then calls the
\* handler's read with exactly (s, i), succeeds and returns the word the
\* module holds there, which is the v last written.
C6_DataRoundTrip ==
    LET st == env[last.hart] IN
    (IsDataAccess /\ lookup(st.selector)
                  /\ handler_status(st.set_selector, st.index) = "Ok")
        => IF last.kind = "Write"
           THEN /\ invoked = <<[op |-> "write", s |-> st.set_selector,
                                i |-> st.index, v |-> last.val]>>
                /\ module_store[<<st.set_selector, st.index>>] = last.val
           ELSE /\ invoked = <<[op |-> "read", s |-> st.set_selector,
                                i |-> st.index, v |-> 0]>>
                /\ result.err = NoError
                /\ result.has_val
                /\ result.val = module_store[<<st.set_selector, st.index>>]

C8_LazyValidation ==
    [][(last'.reg \in {"Selector", "SetSelector", "Index"})
          => /\ result'.err = NoError
             /\ lookups' = lookups
             /\ invoked' = <<>>
             /\ module_store' = module_store
             /\ last'.kind = "Write"
                   => csr_fetch(env', last'.hart, last'.reg) = last'.val]_vars

C8_Witness ==
    /\ last.reg = "Selector" /\ last.kind = "Write"
    /\ last.val = 2
    /\ ~lookup(last.val)
    /\ env[last.hart].selector = 2
    /\ result.err = NoError
    /\ lookups = 0

\* C9 (hart isolation): a step performed by one hart leaves every other
\* hart's state unchanged, reports the performing hart's own id, and a
\* coordinate read gives the performing hart's own register.
C9_HartIsolation ==
    [][last'.reg # "None"
          => /\ \A g \in Harts \ {last'.hart} : env'[g] = env[g]
             /\ \A k \in 1 .. Len(emitted') :
                    emitted'[k].mhartid = env[last'.hart].mhartid
             /\ (last'.kind = "Read" /\ last'.reg # "Data")
                   => /\ result'.val = csr_fetch(env, last'.hart, last'.reg)
                      /\ result'.has_val]_vars

C9_Witness ==
    /\ last.reg = "Index"
    /\ last.hart = 0
    /\ Coordinates(env[0]) # Coordinates(env[1])
    /\ env[1].index # 0
    /\ env[0].index # env[1].index

\* C10 (report content): the event of an operation carries the performing
\* hart's id, the register and access kind of that operation, and the value
\* involved: the written value for a write, the obtained value for a
\* successful read, none for a failed read; the outcome the event reports
\* is the outcome given to the caller.
C10_ReportContent ==
    last.reg # "None"
        => /\ Len(emitted) = 1
           /\ emitted[1].mhartid = env[last.hart].mhartid
           /\ RegisterOf(emitted[1].name) = last.reg
           /\ KindOf(emitted[1].name) = last.kind
           /\ emitted[1].reg_index = CsrOf(last.reg)
           /\ last.kind = "Write"
                 => ReportsValue(emitted[1]) /\ emitted[1].val = last.val
           /\ last.kind = "Read"
                 => /\ ReportsValue(emitted[1]) <=> result.has_val
                    /\ result.has_val => emitted[1].val = result.val
           /\ ReportedOutcome(emitted[1]) = result.err

C10_Witness ==
    /\ last.reg = "Index" /\ last.kind = "Read"
    /\ last.hart = 1
    /\ result.has_val /\ result.val = 2
    /\ emitted = <<TraceEvent("cxidx_csr_read", 1, CSR_CXIDX, 2)>>

====
